---- MODULE Spec2Model ----
(***************************************************************************)
(* Model of src/app.py: the asyncio batch downloader VideoDownloader.      *)
(* Python strings are sequences of one-character strings.  Coroutines are  *)
(* interleaved only at their await points, as on one asyncio event loop;   *)
(* the yt-dlp download runs in an executor thread and is a step of its     *)
(* own.                                                                    *)
(***************************************************************************)
EXTENDS Integers, Sequences, FiniteSets, TLC

(***************************************************************************)
(* Bounds of the model                                                     *)
(***************************************************************************)
\* longest batch the control plane returns
MaxBatch == 2
\* largest concurrency cap (Config.max_workers) a run is configured with
MaxWorkers == 2
\* most characters before and after the letters of a name given to
\* sanitize_filename
MaxAffix == 2

(***************************************************************************)
(* Config (src/app.py:33-54)                                               *)
(***************************************************************************)
max_retries == 3
DefaultMaxLength == 100

(***************************************************************************)
(* Character classes and string helpers                                    *)
(***************************************************************************)
Lower == {"a","b","c","d","e","f","g","h","i","j","k","l","m",
          "n","o","p","q","r","s","t","u","v","w","x","y","z"}
Upper == {"A","B","C","D","E","F","G","H","I","J","K","L","M",
          "N","O","P","Q","R","S","T","U","V","W","X","Y","Z"}
Letter == Lower \cup Upper
Digit == {"0","1","2","3","4","5","6","7","8","9"}
AlNum == Letter \cup Digit
\* str.strip() without arguments and the regex class \s
Whitespace == {" ", "\t", "\n", "\r", "\f"}
\* the character class [<>:"/\\|?*\x00-\x1f] of sanitize_filename
Dangerous == {"<", ">", ":", "\"", "/", "\\", "|", "?", "*", "\t", "\n", "\r", "\f"}

Min(a, b) == IF a < b THEN a ELSE b
Max(a, b) == IF a > b THEN a ELSE b

\* s[:n] of Python, n possibly negative
PyPrefix(s, n) ==
    IF n >= 0 THEN SubSeq(s, 1, Min(n, Len(s)))
    ELSE SubSeq(s, 1, Max(Len(s) + n, 0))

\* s[n:] of Python for 0 <= n
PySuffix(s, n) == SubSeq(s, Min(n, Len(s)) + 1, Len(s))

\* str.strip(chars)
RECURSIVE LStrip(_, _)
LStrip(s, chars) ==
    IF s # <<>> /\ Head(s) \in chars THEN LStrip(Tail(s), chars) ELSE s

RECURSIVE RStrip(_, _)
RStrip(s, chars) ==
    IF s # <<>> /\ s[Len(s)] \in chars THEN RStrip(SubSeq(s, 1, Len(s) - 1), chars) ELSE s

Strip(s, chars) == RStrip(LStrip(s, chars), chars)

\* str.startswith(prefix)
StartsWith(s, prefix) ==
    Len(s) >= Len(prefix) /\ SubSeq(s, 1, Len(prefix)) = prefix

\* str.split(sep) for a one-character separator: always at least one field
RECURSIVE SplitFrom(_, _, _)
SplitFrom(s, sep, field) ==
    IF s = <<>> THEN <<field>>
    ELSE IF Head(s) = sep THEN <<field>> \o SplitFrom(Tail(s), sep, <<>>)
    ELSE SplitFrom(Tail(s), sep, Append(field, Head(s)))

Split(s, sep) == SplitFrom(s, sep, <<>>)

\* index of the last occurrence of c in s, 0 when there is none (str.rfind + 1)
RECURSIVE RFind(_, _)
RFind(s, c) ==
    IF s = <<>> THEN 0
    ELSE IF s[Len(s)] = c THEN Len(s)
    ELSE RFind(SubSeq(s, 1, Len(s) - 1), c)

\* os.path.splitext (posixpath): the extension starts at the last dot that
\* follows the last "/" and is preceded by a character that is not a dot
splitext(p) ==
    LET sepIndex == RFind(p, "/")
        dotIndex == RFind(p, ".")
    IN  IF dotIndex > sepIndex
           /\ \E k \in (sepIndex + 1)..(dotIndex - 1) : p[k] # "."
        THEN <<SubSeq(p, 1, dotIndex - 1), SubSeq(p, dotIndex, Len(p))>>
        ELSE <<p, <<>>>>

\* re.sub(r'[<>:"/\\|?*\x00-\x1f]', '_', filename)
SubDangerous(s) == [k \in 1..Len(s) |-> IF s[k] \in Dangerous THEN "_" ELSE s[k]]

unnamed == <<"u","n","n","a","m","e","d">>

\* SecurityUtils.sanitize_filename
sanitize_filename(filename, max_length) ==
    LET stripped == Strip(SubDangerous(filename), {".", " "})
        ne == splitext(stripped)
        limited == IF Len(stripped) > max_length
                   THEN PyPrefix(ne[1], max_length - Len(ne[2])) \o ne[2]
                   ELSE stripped
    IN  IF limited = <<>> THEN unnamed ELSE limited

(***************************************************************************)
(* SecurityUtils.validate_url: the compiled pattern, matched with          *)
(* re.IGNORECASE from the start of the string                              *)
(***************************************************************************)
LowerSeq == <<"a","b","c","d","e","f","g","h","i","j","k","l","m",
              "n","o","p","q","r","s","t","u","v","w","x","y","z">>
UpperSeq == <<"A","B","C","D","E","F","G","H","I","J","K","L","M",
              "N","O","P","Q","R","S","T","U","V","W","X","Y","Z">>

ToLowerChar(c) ==
    IF c \in Upper THEN LowerSeq[CHOOSE k \in 1..26 : UpperSeq[k] = c] ELSE c

ToLower(s) == [k \in 1..Len(s) |-> ToLowerChar(s[k])]

\* longest prefix of s made of characters of the class
RECURSIVE TakeWhile(_, _)
TakeWhile(s, class) ==
    IF s # <<>> /\ Head(s) \in class THEN <<Head(s)>> \o TakeWhile(Tail(s), class) ELSE <<>>

\* [A-Z0-9](?:[A-Z0-9-]{0,61}[A-Z0-9])?
IsLabel(l) ==
    /\ Len(l) \in 1..63
    /\ l[1] \in AlNum
    /\ l[Len(l)] \in AlNum
    /\ \A k \in 1..Len(l) : l[k] \in AlNum \cup {"-"}

\* [A-Z]{2,6}
IsTld(t) == Len(t) \in 2..6 /\ \A k \in 1..Len(t) : t[k] \in Letter

\* (?:label\.)+[A-Z]{2,6}\.?
IsDomain(h) ==
    LET core == IF h # <<>> /\ h[Len(h)] = "." THEN SubSeq(h, 1, Len(h) - 1) ELSE h
        parts == Split(core, ".")
    IN  /\ Len(parts) >= 2
        /\ IsTld(parts[Len(parts)])
        /\ \A k \in 1..(Len(parts) - 1) : IsLabel(parts[k])

\* \d{1,3}\.\d{1,3}\.\d{1,3}\.\d{1,3}
IsIp(h) ==
    LET parts == Split(h, ".")
    IN  /\ Len(parts) = 4
        /\ \A k \in 1..4 : Len(parts[k]) \in 1..3 /\ \A j \in 1..Len(parts[k]) : parts[k][j] \in Digit

IsLocalhost(h) == ToLower(h) = <<"l","o","c","a","l","h","o","s","t">>

\* (?:/?|[/?]\S+)
IsPathPart(t) ==
    \/ t = <<>>
    \/ t = <<"/">>
    \/ /\ Len(t) >= 2
       /\ t[1] \in {"/", "?"}
       /\ \A k \in 2..Len(t) : t[k] \notin Whitespace

\* the rest of the pattern up to $, which also matches before a final newline
IsPathToEnd(t) ==
    \/ IsPathPart(t)
    \/ t # <<>> /\ t[Len(t)] = "\n" /\ IsPathPart(SubSeq(t, 1, Len(t) - 1))

\* (?::\d+)? followed by the path part
IsPortAndPath(t) ==
    IF t # <<>> /\ Head(t) = ":"
    THEN LET digits == TakeWhile(Tail(t), Digit)
         IN  digits # <<>> /\ IsPathToEnd(PySuffix(Tail(t), Len(digits)))
    ELSE IsPathToEnd(t)

\* everything of the pattern after ^https?://
IsHostPortPath(rest) ==
    LET host == TakeWhile(rest, AlNum \cup {"-", "."})
    IN  /\ IsDomain(host) \/ IsLocalhost(host) \/ IsIp(host)
        /\ IsPortAndPath(PySuffix(rest, Len(host)))

validate_url(url) ==
    LET low == ToLower(url)
    IN  \/ StartsWith(low, <<"h","t","t","p",":","/","/">>) /\ IsHostPortPath(PySuffix(url, 7))
        \/ StartsWith(low, <<"h","t","t","p","s",":","/","/">>) /\ IsHostPortPath(PySuffix(url, 8))

(***************************************************************************)
(* VideoDownloader.extract_urls                                            *)
(* A record of the batch is a dict, [type |-> "dict", has_url, video_url], *)
(* or a string, [type |-> "str", text].  The value a dict holds under       *)
(* 'video_url' is whatever the JSON answer had there: `value` is "str" for  *)
(* a string, "truthy" for any other value that is true in a condition (a    *)
(* non-zero number, true, a non-empty list or object) and "falsy" for the   *)
(* rest (null, 0, false, [], {}).                                           *)
(***************************************************************************)
DictRecord(has, url) ==
    [type |-> "dict", has_url |-> has, value |-> "str", video_url |-> url, text |-> <<>>]
StrRecord(text) ==
    [type |-> "str", has_url |-> FALSE, value |-> "str", video_url |-> <<>>, text |-> text]
DictOther(value) ==
    [type |-> "dict", has_url |-> TRUE, value |-> value, video_url |-> <<>>, text |-> <<>>]

\* validate_url(video_url) raises: url_pattern.match of a value that is no
\* string is a TypeError, and nothing in extract_urls catches it
LineRaises(line) ==
    line.type = "dict" /\ line.has_url /\ line.value = "truthy"

\* the video_url that extract_urls derives from one line
DerivedUrl(line) ==
    IF line.type = "dict"
    THEN IF line.has_url THEN line.video_url ELSE <<>>
    ELSE LET stripped == Strip(line.text, Whitespace)
         IN  IF \/ StartsWith(stripped, <<"h","t","t","p","s",":","/","/">>)
                \/ StartsWith(stripped, <<"h","t","t","p",":","/","/">>)
             THEN stripped
             ELSE LET parts == Split(stripped, "|")
                  IN  IF Len(parts) >= 2 THEN Strip(parts[2], Whitespace) ELSE <<>>

RECURSIVE extract_urls(_)
extract_urls(lines) ==
    IF lines = <<>> THEN <<>>
    ELSE LET video_url == DerivedUrl(Head(lines))
         IN  (IF video_url # <<>> /\ validate_url(video_url) THEN <<video_url>> ELSE <<>>)
             \o extract_urls(Tail(lines))

\* the loop of extract_urls reaches a line on which validate_url raises
ExtractRaises(lines) == \E k \in 1..Len(lines) : LineRaises(lines[k])

(***************************************************************************)
(* The environment of a run: what the control plane may return and what    *)
(* yt-dlp reports for a locator                                            *)
(***************************************************************************)
Url1 == <<"h","t","t","p",":","/","/","a",".","i","o","/","1">>
Url2 == <<"h","t","t","p",":","/","/","a",".","i","o","/","2">>

\* the lines a batch is made of: a bare link, an owner|locator|title line,
\* a dict with the first locator, and three lines without a valid locator
Lines ==
    { StrRecord(Url1),
      StrRecord(<<"o","|">> \o Url2 \o <<"|","t">>),
      DictRecord(TRUE, Url1),
      DictRecord(FALSE, <<>>),
      StrRecord(<<"o","|","f","t","p",":","/","/","a",".","i","o","|","t">>),
      StrRecord(<<"x">>) }

RECURSIVE SeqsUpTo(_, _)
SeqsUpTo(S, n) ==
    IF n = 0 THEN {<<>>}
    ELSE LET shorter == SeqsUpTo(S, n - 1)
         IN  shorter \cup {Append(q, x) : q \in {r \in shorter : Len(r) = n - 1}, x \in S}

Batches == SeqsUpTo(Lines, MaxBatch)

\* data.get("list_id"): a string, or None when the answer carries none
NoListId == "None"
ListIds == {NoListId, "L1"}

\* a value of the info dict of yt-dlp: a string or None
Str(s) == [none |-> FALSE, s |-> s]
None == [none |-> TRUE, s |-> <<>>]

\* the info dict yt-dlp extracts for a locator; the extractor of the second
\* one reports no uploader
InfoOf(url) ==
    IF url = Url1
    THEN [title |-> Str(<<"a","/","b">>), uploader |-> Str(<<"c">>), id |-> Str(<<"1">>)]
    ELSE [title |-> Str(<<"a","_","b">>), uploader |-> None, id |-> Str(<<"2">>)]

\* get_video_info's answer when extract_info raises (src/app.py:277)
UnknownInfo ==
    [title |-> Str(<<"U","n","k","n","o","w","n">>),
     uploader |-> Str(<<"U","n","k","n","o","w","n">>),
     id |-> Str(<<"u","n","k","n","o","w","n">>)]

\* Config.s3_folder
s3_folder == <<"f">>

\* s3_key = f"{s3_folder}/{safe_channel}/{safe_title}_{video_id}.wav"
S3Key(safe_channel, safe_title, video_id) ==
    s3_folder \o <<"/">> \o safe_channel \o <<"/">> \o safe_title \o <<"_">> \o video_id
        \o <<".","w","a","v">>

\* wav_file_path, relative to temp_dir
WavPath(safe_title, video_id) == safe_title \o <<"_">> \o video_id \o <<".","w","a","v">>

KeyOfInfo(info) ==
    S3Key(sanitize_filename(info.uploader.s, DefaultMaxLength),
          sanitize_filename(info.title.s, DefaultMaxLength), info.id.s)

PathOfInfo(info) == WavPath(sanitize_filename(info.title.s, DefaultMaxLength), info.id.s)

\* the objects the bucket may hold before the run
InitialObjects == {KeyOfInfo(InfoOf(Url1))}

(***************************************************************************)
(* State                                                                   *)
(***************************************************************************)
VARIABLES
    max_workers,    \* Config.max_workers of this run
    mainpc,         \* where process_videos (and then __aexit__) stands
    fetch_attempt,  \* attempt of get_video_list_from_api, 0-indexed
    fetch_result,   \* how get_video_list_from_api returned, and whether
                    \* the batch it returned was empty
    list_id,        \* the list_id received
    video_urls,     \* the locators extract_urls admitted, one task each
    stats,          \* self.stats
    completed,      \* results process_videos has taken from as_completed
    semaphore,      \* free permits of the asyncio.Semaphore
    pc,             \* per task: where download_video stands
    s3_key,         \* per task: the destination key
    output_path,    \* per task: wav_file_path
    conv,           \* per task: how the executor thread's download ended
    attempt,        \* per task: attempt of upload_to_s3_async, 0-indexed
    returned,       \* per task: the tuples download_video has returned
    resolution,     \* per task: how get_video_info got its answer
    exists,         \* per task: the answer of check_s3_file_exists
    calls,          \* per task: the collaborators invoked for it
    cache,          \* the info_<md5>.json files of temp_dir
    files,          \* the .wav files of temp_dir
    s3,             \* the keys of the bucket
    posts,          \* the payloads posted to /notify-completion
    notify_result,  \* how the post ended
    extraction,     \* extract_urls looked at on its own: the video_lines
                    \* it is given, how it ended and its list
    call            \* one coroutine looked at on its own, with its
                    \* locals, its requests and its sleeps; or
                    \* sanitize_filename looked at on its own, with its
                    \* arguments and what it returned

taskvars == <<pc, s3_key, output_path, conv, attempt, returned, resolution, exists, calls>>
mainvars == <<max_workers, mainpc, fetch_attempt, fetch_result, list_id,
              video_urls, completed, posts, notify_result>>
vars == <<mainvars, taskvars, stats, semaphore, cache, files, s3>>
auxvars == <<extraction, call>>

\* extract_urls is not being looked at on its own
NoExtract == extraction = [state |-> "none"]

\* no coroutine is being looked at on its own
NoCall == call = [name |-> "none"]

\* the state of a downloader on which process_videos has not been called
Idle ==
    /\ max_workers = 1
    /\ mainpc = "fetching"
    /\ fetch_attempt = 0
    /\ fetch_result = "pending"
    /\ list_id = NoListId
    /\ video_urls = <<>>
    /\ stats = [success |-> 0, skipped |-> 0, errors |-> 0, total |-> 0]
    /\ completed = 0
    /\ semaphore = 0
    /\ pc = <<>>
    /\ s3_key = <<>>
    /\ output_path = <<>>
    /\ conv = <<>>
    /\ attempt = <<>>
    /\ returned = <<>>
    /\ resolution = <<>>
    /\ exists = <<>>
    /\ calls = <<>>
    /\ cache = {}
    /\ files = {}
    /\ s3 = {}
    /\ posts = <<>>
    /\ notify_result = "none"

Tasks == DOMAIN pc

\* MAX_WORKERS is configured as one permit, or as MaxWorkers permits
Init ==
    /\ max_workers \in {1, MaxWorkers}
    /\ mainpc = "fetching"
    /\ fetch_attempt = 0
    /\ fetch_result = "pending"
    /\ list_id = NoListId
    /\ video_urls = <<>>
    /\ stats = [success |-> 0, skipped |-> 0, errors |-> 0, total |-> 0]
    /\ completed = 0
    /\ semaphore = 0
    /\ pc = <<>>
    /\ s3_key = <<>>
    /\ output_path = <<>>
    /\ conv = <<>>
    /\ attempt = <<>>
    /\ returned = <<>>
    /\ resolution = <<>>
    /\ exists = <<>>
    /\ calls = <<>>
    /\ cache = {}
    /\ files = {}
    /\ s3 \in SUBSET InitialObjects
    /\ posts = <<>>
    /\ notify_result = "none"
    /\ NoExtract
    /\ NoCall

(***************************************************************************)
(* get_video_list_from_api and the head of process_videos                  *)
(***************************************************************************)
\* FetchRaises with a report posted when the attempts are used up
FetchRaisesReports ==
    /\ mainpc = "fetching"
    /\ IF fetch_attempt = max_retries - 1
       THEN /\ fetch_result' = "exhausted"
            /\ mainpc' = "notifying"
            /\ posts' = Append(posts, [list_id |-> list_id, status |-> "failed", stats |-> stats])
            /\ UNCHANGED fetch_attempt
       ELSE /\ fetch_attempt' = fetch_attempt + 1
            /\ UNCHANGED <<fetch_result, mainpc, posts>>
    /\ UNCHANGED <<max_workers, list_id, video_urls, completed,
                   notify_result, taskvars, stats, semaphore, cache, files, s3>>

\* the request raises: next attempt after the backoff, or [], None after
\* the last one, on which process_videos returns
FetchRaises ==
    /\ mainpc = "fetching"
    /\ IF fetch_attempt = max_retries - 1
       THEN /\ fetch_result' = "exhausted"
            /\ mainpc' = "finished"
            /\ UNCHANGED fetch_attempt
       ELSE /\ fetch_attempt' = fetch_attempt + 1
            /\ UNCHANGED <<fetch_result, mainpc>>
    /\ UNCHANGED <<max_workers, list_id, video_urls, completed, posts,
                   notify_result, taskvars, stats, semaphore, cache, files, s3>>

\* the answer's status is not "success": [], None, without another attempt
FetchErrorStatus ==
    /\ mainpc = "fetching"
    /\ fetch_result' = "error_status"
    /\ mainpc' = "finished"
    /\ UNCHANGED <<max_workers, fetch_attempt, list_id, video_urls, completed,
                   posts, notify_result, taskvars, stats, semaphore, cache, files, s3>>

\* process_videos from the received batch to the first await of the
\* as_completed loop: the two early returns, extract_urls, stats['total'],
\* the semaphore and one task per admitted locator
StartBatch(batch, id) ==
    LET urls == extract_urls(batch)
        n == Len(urls)
    IN  /\ fetch_result' = IF batch = <<>> THEN "empty" ELSE "received"
        /\ list_id' = id
        /\ IF batch = <<>> \/ urls = <<>>
           THEN /\ mainpc' = "finished"
                /\ UNCHANGED <<video_urls, stats, semaphore, taskvars>>
           ELSE /\ mainpc' = "collecting"
                /\ video_urls' = urls
                /\ stats' = [stats EXCEPT !.total = n]
                /\ semaphore' = max_workers
                /\ pc' = [i \in 1..n |-> "pending"]
                /\ s3_key' = [i \in 1..n |-> <<>>]
                /\ output_path' = [i \in 1..n |-> <<>>]
                /\ conv' = [i \in 1..n |-> "none"]
                /\ attempt' = [i \in 1..n |-> 0]
                /\ returned' = [i \in 1..n |-> <<>>]
                /\ resolution' = [i \in 1..n |-> "none"]
                /\ exists' = [i \in 1..n |-> "none"]
                /\ calls' = [i \in 1..n |-> {}]

\* the answer's status is "success"
FetchSucceeds(batch, id) ==
    /\ mainpc = "fetching"
    /\ StartBatch(batch, id)
    /\ UNCHANGED <<max_workers, fetch_attempt, completed, posts, notify_result,
                   cache, files, s3>>

(***************************************************************************)
(* process_with_semaphore and download_video                               *)
(***************************************************************************)
\* Return with the permit kept
ReturnKeepsPermit(i, result) ==
    /\ pc' = [pc EXCEPT ![i] = "done"]
    /\ returned' = [returned EXCEPT ![i] = Append(@, result)]
    /\ conv' = [conv EXCEPT ![i] = "none"]
    /\ attempt' = [attempt EXCEPT ![i] = 0]
    /\ UNCHANGED semaphore

\* download_video returns `result`: its locals are gone, and leaving
\* `async with semaphore` frees the permit
Return(i, result) ==
    /\ pc' = [pc EXCEPT ![i] = "done"]
    /\ returned' = [returned EXCEPT ![i] = Append(@, result)]
    /\ conv' = [conv EXCEPT ![i] = "none"]
    /\ attempt' = [attempt EXCEPT ![i] = 0]
    /\ semaphore' = semaphore + 1

Result(i, ok, message) == [url |-> video_urls[i], ok |-> ok, message |-> message]

\* Acquire without the semaphore's wait
AcquireUnguarded(i) ==
    /\ mainpc = "collecting"
    /\ pc[i] = "pending"
    /\ pc' = [pc EXCEPT ![i] = "sleeping"]
    /\ semaphore' = semaphore - 1
    /\ UNCHANGED <<mainvars, s3_key, output_path, conv, attempt, returned, resolution, exists,
                   calls, stats, cache, files, s3>>

\* the task takes a permit and runs download_video to its first await,
\* the random delay
Acquire(i) ==
    /\ mainpc = "collecting"
    /\ pc[i] = "pending"
    /\ semaphore > 0
    /\ IF ~validate_url(video_urls[i])
       THEN /\ pc' = [pc EXCEPT ![i] = "done"]
            /\ returned' = [returned EXCEPT ![i] = Append(@, Result(i, FALSE, "Invalid URL"))]
            /\ UNCHANGED semaphore
       ELSE /\ pc' = [pc EXCEPT ![i] = "sleeping"]
            /\ semaphore' = semaphore - 1
            /\ UNCHANGED returned
    /\ UNCHANGED <<mainvars, s3_key, output_path, conv, attempt, resolution, exists, calls,
                   stats, cache, files, s3>>

\* get_video_info: the cached answer, or yt-dlp's (`answer`), which is
\* cached unless extract_info raised
CachedInfo(url) == {c \in cache : c.url = url}

video_info(url, answer) ==
    IF CachedInfo(url) # {} THEN (CHOOSE c \in CachedInfo(url) : TRUE).info
    ELSE IF answer = "raises" THEN UnknownInfo
    ELSE InfoOf(url)

\* download_video from the end of the delay to `await check_s3_file_exists`;
\* sanitize_filename raises TypeError on None, which the handler of
\* download_video turns into a failed item
Resolve(i, answer) ==
    LET url == video_urls[i]
        hit == CachedInfo(url) # {}
        info == video_info(url, answer)
    IN  /\ pc[i] = "sleeping"
        /\ resolution' = [resolution EXCEPT ![i] =
               IF ~hit /\ answer = "raises" THEN "failed" ELSE "ok"]
        /\ cache' = IF hit \/ answer = "raises" THEN cache
                    ELSE cache \cup {[url |-> url, info |-> info]}
        /\ IF info.title.none \/ info.uploader.none
           THEN /\ stats' = [stats EXCEPT !.errors = @ + 1]
                /\ Return(i, Result(i, FALSE, "TypeError"))
                /\ calls' = [calls EXCEPT ![i] = @ \cup {"get_video_info"}]
                /\ UNCHANGED <<s3_key, output_path>>
           ELSE /\ s3_key' = [s3_key EXCEPT ![i] = KeyOfInfo(info)]
                /\ output_path' = [output_path EXCEPT ![i] = PathOfInfo(info)]
                /\ pc' = [pc EXCEPT ![i] = "probing"]
                /\ calls' = [calls EXCEPT ![i] = @ \cup {"get_video_info", "head_object"}]
                /\ UNCHANGED <<stats, returned, semaphore, conv, attempt>>
        /\ UNCHANGED <<mainvars, exists, files, s3>>

\* ProbeReturns with the `return` of the skip branch missing: the item is
\* counted and reported as skipped and then downloaded all the same
ProbeReturnsFallsThrough(i, answer) ==
    /\ pc[i] = "probing"
    /\ answer => s3_key[i] \in s3
    /\ exists' = [exists EXCEPT ![i] = IF answer THEN "true" ELSE "false"]
    /\ IF answer
       THEN /\ stats' = [stats EXCEPT !.skipped = @ + 1]
            /\ returned' = [returned EXCEPT ![i] = Append(@, Result(i, TRUE, "exists"))]
       ELSE UNCHANGED <<stats, returned>>
    /\ pc' = [pc EXCEPT ![i] = "converting"]
    /\ calls' = [calls EXCEPT ![i] = @ \cup {"download"}]
    /\ UNCHANGED <<mainvars, s3_key, output_path, resolution, cache, files, s3,
                   semaphore, conv, attempt>>

\* ProbeReturns with the probe's answer not looked at
ProbeReturnsIgnored(i, answer) ==
    /\ pc[i] = "probing"
    /\ answer => s3_key[i] \in s3
    /\ exists' = [exists EXCEPT ![i] = IF answer THEN "true" ELSE "false"]
    /\ pc' = [pc EXCEPT ![i] = "converting"]
    /\ calls' = [calls EXCEPT ![i] = @ \cup {"download"}]
    /\ UNCHANGED <<mainvars, s3_key, output_path, resolution, cache, files, s3,
                   stats, returned, semaphore, conv, attempt>>

\* check_s3_file_exists answers: True only when head_object finds the key,
\* False when it raises, for a missing key or for any other reason.
\* download_video then skips the item or hands the download to the executor
ProbeReturns(i, answer) ==
    /\ pc[i] = "probing"
    /\ answer => s3_key[i] \in s3
    /\ exists' = [exists EXCEPT ![i] = IF answer THEN "true" ELSE "false"]
    /\ IF answer
       THEN /\ stats' = [stats EXCEPT !.skipped = @ + 1]
            /\ Return(i, Result(i, TRUE, "exists"))
            /\ UNCHANGED calls
       ELSE /\ pc' = [pc EXCEPT ![i] = "converting"]
            /\ calls' = [calls EXCEPT ![i] = @ \cup {"download"}]
            /\ UNCHANGED <<stats, returned, semaphore, conv, attempt>>
    /\ UNCHANGED <<mainvars, s3_key, output_path, resolution, cache, files, s3>>

\* _download_with_ytdlp in the executor thread: it writes the .wav and
\* returns, or raises
ThreadDownload(i, outcome) ==
    /\ pc[i] = "converting"
    /\ pc' = [pc EXCEPT ![i] = "converted"]
    /\ conv' = [conv EXCEPT ![i] = outcome]
    /\ files' = IF outcome = "wav" THEN files \cup {output_path[i]} ELSE files
    /\ UNCHANGED <<mainvars, s3_key, output_path, attempt, returned, resolution, exists, calls,
                   stats, semaphore, cache, s3>>

\* what _download_and_convert returns: wav_file_path if it exists, None
\* (FALSE here) if it does not or if the download raised
HasOutput(i) == conv[i] # "raises" /\ output_path[i] \in files

\* Converted with the failed download not counted
ConvertedUncounted(i) ==
    /\ pc[i] = "converted"
    /\ IF ~HasOutput(i)
       THEN /\ Return(i, Result(i, FALSE, "Download failed"))
            /\ UNCHANGED <<calls, stats>>
       ELSE /\ pc' = [pc EXCEPT ![i] = "uploading"]
            /\ calls' = [calls EXCEPT ![i] = @ \cup {"upload"}]
            /\ UNCHANGED <<stats, returned, semaphore, conv, attempt>>
    /\ UNCHANGED <<mainvars, s3_key, output_path, resolution, exists, cache, files, s3>>

\* download_video resumes after _download_and_convert: "Download failed",
\* or on to the first attempt of upload_to_s3_async
Converted(i) ==
    /\ pc[i] = "converted"
    /\ IF ~HasOutput(i)
       THEN /\ stats' = [stats EXCEPT !.errors = @ + 1]
            /\ Return(i, Result(i, FALSE, "Download failed"))
            /\ UNCHANGED calls
       ELSE /\ pc' = [pc EXCEPT ![i] = "uploading"]
            /\ calls' = [calls EXCEPT ![i] = @ \cup {"upload"}]
            /\ UNCHANGED <<stats, returned, semaphore, conv, attempt>>
    /\ UNCHANGED <<mainvars, s3_key, output_path, resolution, exists, cache, files, s3>>

\* os.remove(output_path), its failure ignored
Cleanup(i) == files \ {output_path[i]}

\* AfterUpload with os.remove in the success branch only
AfterUploadLeaks(i, s3_url) ==
    IF s3_url
    THEN /\ files' = files \ {output_path[i]}
         /\ stats' = [stats EXCEPT !.success = @ + 1]
         /\ Return(i, Result(i, TRUE, "uploaded"))
    ELSE /\ UNCHANGED files
         /\ stats' = [stats EXCEPT !.errors = @ + 1]
         /\ Return(i, Result(i, FALSE, "S3 upload failed"))

\* download_video after upload_to_s3_async returned: cleanup, then the
\* outcome by s3_url
AfterUpload(i, s3_url) ==
    /\ files' = Cleanup(i)
    /\ IF s3_url
       THEN /\ stats' = [stats EXCEPT !.success = @ + 1]
            /\ Return(i, Result(i, TRUE, "uploaded"))
       ELSE /\ stats' = [stats EXCEPT !.errors = @ + 1]
            /\ Return(i, Result(i, FALSE, "S3 upload failed"))

\* one attempt of upload_to_s3_async that ends well: the file is there for
\* os.path.getsize and open, the transfer (single-shot or multipart) stores
\* the object, and download_video goes on with the url
UploadSucceeds(i) ==
    /\ pc[i] = "uploading"
    /\ output_path[i] \in files
    /\ s3' = s3 \cup {s3_key[i]}
    /\ AfterUpload(i, TRUE)
    /\ UNCHANGED <<mainvars, s3_key, output_path, resolution, exists, calls, cache>>

\* one attempt that raises, in os.path.getsize when the file is gone or in
\* the client or the transfer for any reason: the next attempt after the
\* backoff, or None after the last attempt
UploadRaises(i) ==
    /\ pc[i] = "uploading"
    /\ IF attempt[i] = max_retries - 1
       THEN AfterUpload(i, FALSE)
       ELSE /\ attempt' = [attempt EXCEPT ![i] = @ + 1]
            /\ UNCHANGED <<pc, conv, files, stats, returned, semaphore>>
    /\ UNCHANGED <<mainvars, s3_key, output_path, resolution, exists, calls, cache, s3>>

(***************************************************************************)
(* The as_completed loop, the completion report and __aexit__              *)
(***************************************************************************)
\* status = "completed" if self.stats['errors'] == 0 else "partial"
StatusOf(st) == IF st.errors = 0 THEN "completed" ELSE "partial"

Payload(id, st) == [list_id |-> id, status |-> StatusOf(st), stats |-> st]

\* Collect with the report posted on the first result taken
CollectReportsEarly ==
    /\ mainpc = "collecting"
    /\ completed < Cardinality({i \in Tasks : pc[i] = "done"})
    /\ completed' = completed + 1
    /\ IF list_id = NoListId
       THEN /\ mainpc' = IF completed + 1 < Len(video_urls) THEN "collecting" ELSE "finished"
            /\ UNCHANGED posts
       ELSE mainpc' = "notifying" /\ posts' = Append(posts, Payload(list_id, stats))
    /\ UNCHANGED <<max_workers, fetch_attempt, fetch_result, list_id, video_urls,
                   notify_result, taskvars, stats, semaphore, cache, files, s3>>

\* process_videos takes one finished task's result; after the last one it
\* goes on to notify_api_completion, which posts unless list_id is None
Collect ==
    /\ mainpc = "collecting"
    /\ completed < Cardinality({i \in Tasks : pc[i] = "done"})
    /\ completed' = completed + 1
    /\ IF completed + 1 < Len(video_urls)
       THEN UNCHANGED <<mainpc, posts>>
       ELSE IF list_id = NoListId
            THEN mainpc' = "finished" /\ UNCHANGED posts
            ELSE mainpc' = "notifying" /\ posts' = Append(posts, Payload(list_id, stats))
    /\ UNCHANGED <<max_workers, fetch_attempt, fetch_result, list_id, video_urls,
                   notify_result, taskvars, stats, semaphore, cache, files, s3>>

\* the post returns or raises; either way notify_api_completion returns
NotifyReturns(ok) ==
    /\ mainpc = "notifying"
    /\ notify_result' = IF ok THEN "ok" ELSE "failed"
    /\ mainpc' = "finished"
    /\ UNCHANGED <<max_workers, fetch_attempt, fetch_result, list_id, video_urls,
                   completed, posts, taskvars, stats, semaphore, cache, files, s3>>

\* __aexit__: shutil.rmtree(temp_dir)
AExit ==
    /\ mainpc = "finished"
    /\ mainpc' = "exited"
    /\ files' = {}
    /\ cache' = {}
    /\ UNCHANGED <<max_workers, fetch_attempt, fetch_result, list_id, video_urls,
                   completed, posts, notify_result, taskvars, stats, semaphore, s3>>

Next ==
    \/ FetchRaises /\ UNCHANGED auxvars
    \/ FetchErrorStatus /\ UNCHANGED auxvars
    \/ \E batch \in Batches, id \in ListIds : FetchSucceeds(batch, id) /\ UNCHANGED auxvars
    \/ \E i \in Tasks : Acquire(i) /\ UNCHANGED auxvars
    \/ \E i \in Tasks, answer \in {"ok", "raises"} : Resolve(i, answer) /\ UNCHANGED auxvars
    \/ \E i \in Tasks, answer \in BOOLEAN : ProbeReturns(i, answer) /\ UNCHANGED auxvars
    \/ \E i \in Tasks, outcome \in {"wav", "raises"} : ThreadDownload(i, outcome) /\ UNCHANGED auxvars
    \/ \E i \in Tasks : Converted(i) /\ UNCHANGED auxvars
    \/ \E i \in Tasks : UploadSucceeds(i) /\ UNCHANGED auxvars
    \/ \E i \in Tasks : UploadRaises(i) /\ UNCHANGED auxvars
    \/ Collect /\ UNCHANGED auxvars
    \/ \E ok \in BOOLEAN : NotifyReturns(ok) /\ UNCHANGED auxvars
    \/ AExit /\ UNCHANGED auxvars

Spec == Init /\ [][Next]_vars

TypeOK ==
    /\ mainpc \in {"fetching", "collecting", "notifying", "finished", "exited"}
    /\ \A i \in Tasks : pc[i] \in {"pending", "sleeping", "probing", "converting", "converted",
                                   "uploading", "done"}
    /\ semaphore \in 0..MaxWorkers

(***************************************************************************)
(* Properties                                                              *)
(***************************************************************************)
\* the pipelines are drained: process_videos has left the as_completed loop
Drained == video_urls # <<>> /\ mainpc \in {"notifying", "finished", "exited"}

\* a task between taking and giving back its permit
Active(i) == pc[i] \notin {"pending", "done"}

\* the outcome a returned tuple stands for
Outcome(result) ==
    IF ~result.ok THEN "failed"
    ELSE IF result.message = "exists" THEN "skipped"
    ELSE "success"

Count(outcome) ==
    Cardinality({i \in Tasks : returned[i] # <<>> /\ Outcome(returned[i][1]) = outcome})

\* C1: every admitted locator has one task, a task never returns twice and
\* has returned exactly when it is done, its tuple is about its own locator,
\* and once the loop is left every task has returned exactly one outcome and
\* process_videos has taken exactly that many results
C1_ExactlyOneOutcome ==
    /\ Tasks = 1..Len(video_urls)
    /\ \A i \in Tasks :
          /\ Len(returned[i]) <= 1
          /\ (pc[i] = "done") <=> (Len(returned[i]) = 1)
          /\ returned[i] # <<>> => returned[i][1].url = video_urls[i]
    /\ completed <= Cardinality({i \in Tasks : pc[i] = "done"})
    /\ Drained => /\ \A i \in Tasks : Len(returned[i]) = 1
                  /\ completed = Len(video_urls)

\* a drained batch of two in which one item failed and its sibling succeeded
C1_Witness ==
    /\ Drained
    /\ Len(video_urls) = 2
    /\ \E i, j \in Tasks : /\ returned[i][1].message = "Download failed"
                           /\ returned[j][1].message = "uploaded"

\* C2: each counter equals the number of tasks that returned that outcome,
\* so every task has incremented exactly one counter once, at every moment
\* of every interleaving; once the loop is left the three add up to total,
\* the number of admitted locators
C2_StatsConsistent ==
    /\ stats.success = Count("success")
    /\ stats.skipped = Count("skipped")
    /\ stats.errors = Count("failed")
    /\ Drained => /\ stats.success + stats.skipped + stats.errors = stats.total
                  /\ stats.total = Len(video_urls)

\* a drained batch, run with two permits, whose two items were counted in
\* two different counters
C2_Witness ==
    /\ Drained
    /\ max_workers = 2
    /\ stats.total = 2
    /\ stats.errors = 1
    /\ stats.skipped = 1

\* C3 (as claimed): no two tasks of a run invoke upload_to_s3_async for the
\* same destination key
C3_OneUploadPerKey ==
    \A i, j \in Tasks :
        ("upload" \in calls[i] /\ "upload" \in calls[j] /\ s3_key[i] = s3_key[j]) => i = j

\* C4: a task whose probe answered True has returned "skipped" and neither
\* _download_and_convert nor upload_to_s3_async was invoked for it
C4_SkipShortCircuits ==
    \A i \in Tasks :
        exists[i] = "true" =>
            /\ pc[i] = "done"
            /\ returned[i] = <<Result(i, TRUE, "exists")>>
            /\ "download" \notin calls[i]
            /\ "upload" \notin calls[i]

\* a task skipped on the probe's answer while its sibling was downloaded
C4_Witness ==
    \E i, j \in Tasks : /\ exists[i] = "true"
                        /\ "head_object" \in calls[i]
                        /\ "download" \in calls[j]

\* C5: never more than max_workers tasks hold a permit, and the free
\* permits are the ones not held
C5_BoundedConcurrency ==
    /\ Cardinality({i \in Tasks : Active(i)}) <= max_workers
    /\ Tasks # {} => semaphore = max_workers - Cardinality({i \in Tasks : Active(i)})

\* every permit is held and another task waits for one
C5_Witness ==
    /\ Cardinality({i \in Tasks : Active(i)}) = max_workers
    /\ \E i \in Tasks : pc[i] = "pending"

\* the status the completion report is claimed to carry
ClaimedStatus(st) ==
    IF st.errors = 0 THEN "completed"
    ELSE IF st.success > 0 THEN "partial"
    ELSE "failed"

\* C6 (as claimed): the posted status is Completed, PartialSuccess or Failed
\* by the final counters
C6_StatusByCounters ==
    \A k \in 1..Len(posts) : posts[k].status = ClaimedStatus(posts[k].stats)

\* C7 (as claimed): an item whose metadata resolution failed is neither
\* probed, downloaded nor uploaded, and it ends as failed
C7_ResolutionFailureFails ==
    \A i \in Tasks :
        resolution[i] = "failed" =>
            /\ calls[i] \cap {"head_object", "download", "upload"} = {}
            /\ pc[i] = "done" => Outcome(returned[i][1]) = "failed"

\* C8 (as claimed): after an empty batch (with a list_id to report on) the
\* run ends with no task and one report posted, Completed, zero processed
C8_EmptyBatchReported ==
    (fetch_result = "empty" /\ list_id # NoListId /\ mainpc \in {"finished", "exited"}) =>
        /\ Tasks = {}
        /\ Len(posts) = 1
        /\ posts[1].status = "completed"
        /\ posts[1].stats.total = 0

\* C9: when get_video_list_from_api has given up, it has made max_retries
\* attempts, the run is over, no task exists and no report was posted
C9_FetchExhaustedAborts ==
    fetch_result = "exhausted" =>
        /\ fetch_attempt + 1 = max_retries
        /\ mainpc \in {"finished", "exited"}
        /\ Tasks = {}
        /\ stats.total = 0
        /\ posts = <<>>

\* the run has ended on the third failed fetch
C9_Witness == fetch_result = "exhausted" /\ mainpc = "exited"

C11_NotifyRetried ==
    /\ notify_result = "failed" => Len(posts) = max_retries
    /\ \A k \in 1..Len(posts) : posts[k] = posts[1]

\* every external call returns in the end: no step that can be taken is
\* put off for ever
FairSpec == Spec /\ WF_vars(Next)

\* C12: every run ends, with __aexit__ done, the report's post returned if
\* one was made, and every admitted item returned
C12_Terminates ==
    <>(/\ mainpc = "exited"
       /\ \A i \in Tasks : pc[i] = "done" /\ Len(returned[i]) = 1
       /\ posts # <<>> => notify_result # "none")

\* a run has ended in which an item's upload failed on every attempt and
\* the post of the report failed
C12_Witness ==
    /\ mainpc = "exited"
    /\ notify_result = "failed"
    /\ \E i \in Tasks : returned[i] = <<Result(i, FALSE, "S3 upload failed")>>

\* a task that has called _download_and_convert and has not returned yet
Working(i) == pc[i] \in {"converting", "converted", "uploading"}

\* C19 (as claimed): no two tasks at work use the same wav_file_path
C19_UniqueWorkingPath ==
    \A i, j \in Tasks : (Working(i) /\ Working(j) /\ output_path[i] = output_path[j]) => i = j

\* C20: a report is posted at most once, only when every task has returned
\* and its result was taken, and the counters it carries are the counters
\* from then on
C20_ReportAfterDrain ==
    posts # <<>> =>
        /\ Len(posts) = 1
        /\ \A i \in Tasks : pc[i] = "done"
        /\ completed = Len(video_urls)
        /\ posts[1].stats = stats
        /\ posts[1].stats.success + posts[1].stats.skipped + posts[1].stats.errors
              = Len(video_urls)

\* the report of a batch of two, one item stored and one failed, is posted
C20_Witness ==
    /\ Len(posts) = 1
    /\ Len(video_urls) = 2
    /\ posts[1].stats.success = 1
    /\ posts[1].stats.errors = 1

(***************************************************************************)
(* extract_urls on its own, on any batch of the lines below                *)
(***************************************************************************)
\* the lines of Lines, a link and a delimited line with blanks around them,
\* a delimited line with a single field, and dicts whose 'video_url' is
\* not a string
ExtractLines ==
    Lines \cup
    { StrRecord(<<" ">> \o Url1 \o <<"\n">>),
      StrRecord(<<"o", "|", " ">> \o Url2 \o <<" ", "|", "t">>),
      StrRecord(<<"|">>),
      DictOther("truthy"),
      DictOther("falsy") }

\* video_lines, the argument of extract_urls
video_lines == extraction.video_lines

ExtractInit ==
    /\ Idle
    /\ NoCall
    /\ extraction \in {[state |-> "pending", video_lines |-> lines, urls |-> <<>>] :
                          lines \in SeqsUpTo(ExtractLines, MaxBatch)}

\* extract_urls returns its list
ExtractReturns ==
    /\ extraction.state = "pending"
    /\ ~ExtractRaises(video_lines)
    /\ extraction' = [extraction EXCEPT !.state = "returned", !.urls = extract_urls(video_lines)]
    /\ UNCHANGED <<vars, call>>

\* extract_urls is left by the TypeError of validate_url
ExtractFails ==
    /\ extraction.state = "pending"
    /\ ExtractRaises(video_lines)
    /\ extraction' = [extraction EXCEPT !.state = "raised"]
    /\ UNCHANGED <<vars, call>>

ExtractNext ==
    \/ ExtractReturns
    \/ ExtractFails

ExtractSpec == ExtractInit /\ [][ExtractNext]_<<vars, auxvars>>

\* the locators of the lines from line k on whose derived locator is not
\* empty and passes validate_url
RECURSIVE Admitted(_, _)
Admitted(lines, k) ==
    IF k > Len(lines) THEN <<>>
    ELSE LET video_url == IF lines[k].type = "dict"
                          THEN IF lines[k].has_url /\ lines[k].value = "str"
                               THEN lines[k].video_url ELSE <<>>
                          ELSE DerivedUrl(lines[k])
         IN  (IF video_url # <<>> /\ validate_url(video_url) THEN <<video_url>> ELSE <<>>)
             \o Admitted(lines, k + 1)

\* C14 (as claimed): extract_urls returns for every batch, and its list is,
\* in order, the derived locators that pass validate_url
C14_ExtractTotal ==
    extraction.state \in {"returned", "raised"} =>
        /\ extraction.state = "returned"
        /\ extraction.urls = Admitted(video_lines, 1)

\* when extract_urls returns, its list is the admitted locators
ExtractReturnsAdmitted ==
    extraction.state = "returned" => extraction.urls = Admitted(video_lines, 1)

(***************************************************************************)
(* One call on its own: upload_to_s3_async with _multipart_upload,         *)
(* get_video_list_from_api, or check_s3_file_exists                        *)
(***************************************************************************)
chunk_size == 8192

\* if file_size > 100 * 1024 * 1024
Threshold == 100 * 1024 * 1024

\* f.read(self.config.chunk_size * 1024)
ChunkBytes == chunk_size * 1024

UseMultipartFromThreshold(size) == size >= Threshold

UseMultipart(size) == size > Threshold

\* the sizes of the file to upload: empty, one byte, one byte under the
\* threshold, the threshold, one byte over it (twelve chunks and a byte),
\* and thirteen whole chunks
Sizes == {0, 1, Threshold - 1, Threshold, Threshold + 1, 13 * ChunkBytes}

Coroutines == {"upload_to_s3_async", "get_video_list_from_api", "check_s3_file_exists"}

\* the parts of `call`: the coroutine's name, where it stands ("attempt":
\* at the head of the retry loop; "parts": in the read loop of
\* _multipart_upload; "aborting": in its handler), os.path.getsize of the
\* file, `attempt`, the upload_id (0 while unbound) and part_number of
\* _multipart_upload, the bytes it has read, the requests made and the
\* seconds slept so far, and what the coroutine returned
coroutine == call.name
callpc == call.pc
file_size == call.file_size
call_attempt == call.attempt
upload_id == call.upload_id
part_number == call.part_number
offset == call.offset
requests == call.requests
sleeps == call.sleeps
call_result == call.result

Request(op, id, part, at, outcome) ==
    [op |-> op, id |-> id, part |-> part, at |-> at, outcome |-> outcome]

\* the positions at which a request of operation op stands in the log
Made(op) == {k \in 1..Len(requests) : requests[k].op = op}

CallInit ==
    /\ Idle
    /\ NoExtract
    /\ call \in {[name |-> name, pc |-> "attempt", file_size |-> size, attempt |-> 0,
                  upload_id |-> 0, part_number |-> 0, offset |-> 0, requests |-> <<>>,
                  sleeps |-> <<>>, result |-> "none"] :
                    name \in Coroutines, size \in Sizes}
    /\ coroutine # "upload_to_s3_async" => file_size = 0

\* AttemptFailed with a sleep after the last attempt as well
AttemptFailedSleepsLast(c) ==
    IF c.attempt = max_retries - 1
    THEN [c EXCEPT !.pc = "returned", !.result = "failed",
                   !.sleeps = Append(@, 2 ^ c.attempt)]
    ELSE [c EXCEPT !.pc = "attempt", !.attempt = @ + 1,
                   !.sleeps = Append(@, 2 ^ c.attempt)]

\* except Exception of the retry loop: on the last attempt the coroutine
\* returns None (or [], None), on the others it sleeps 2 ** attempt and
\* goes round
AttemptFailed(c) ==
    IF c.attempt = max_retries - 1
    THEN [c EXCEPT !.pc = "returned", !.result = "failed"]
    ELSE [c EXCEPT !.pc = "attempt", !.attempt = @ + 1,
                   !.sleeps = Append(@, 2 ^ c.attempt)]

\* the attempt's body ran through: the coroutine returns its value
AttemptSucceeded(c, value) == [c EXCEPT !.pc = "returned", !.result = value]

\* the coroutine has made one more request
Sent(request) == [call EXCEPT !.requests = Append(@, request)]

\* the locals of _multipart_upload are gone
Left(c) == [c EXCEPT !.upload_id = 0, !.part_number = 0, !.offset = 0]

\* opening the client or os.path.getsize raises, before any request
ClientRaises ==
    /\ coroutine = "upload_to_s3_async"
    /\ callpc = "attempt"
    /\ call' = AttemptFailed(call)

\* the file is at most 100 MiB: upload_fileobj, which returns or raises
UploadFileobj(outcome) ==
    /\ coroutine = "upload_to_s3_async"
    /\ callpc = "attempt"
    /\ ~UseMultipart(file_size)
    /\ LET sent == Sent(Request("upload_fileobj", 0, 0, 0, outcome))
       IN  call' = IF outcome = "ok" THEN AttemptSucceeded(sent, "s3_url")
                   ELSE AttemptFailed(sent)

\* the file is larger: _multipart_upload starts with
\* create_multipart_upload.  When that raises, upload_id is unbound, so the
\* handler's abort_multipart_upload(UploadId=upload_id) is a NameError
\* before any request, which the bare except passes over; then raise e
CreateMultipartUpload(outcome) ==
    /\ coroutine = "upload_to_s3_async"
    /\ callpc = "attempt"
    /\ UseMultipart(file_size)
    /\ LET id == Cardinality({k \in Made("create_multipart_upload") :
                                 requests[k].outcome = "ok"}) + 1
       IN  call' = IF outcome = "ok"
                   THEN [Sent(Request("create_multipart_upload", id, 0, 0, "ok"))
                            EXCEPT !.pc = "parts", !.upload_id = id,
                                   !.part_number = 1, !.offset = 0]
                   ELSE AttemptFailed(Sent(Request("create_multipart_upload", 0, 0, 0, outcome)))

\* f.read gave a chunk: upload_part with the current part_number
UploadPart(outcome) ==
    /\ callpc = "parts"
    /\ offset < file_size
    /\ LET sent == Sent(Request("upload_part", upload_id, part_number, offset, outcome))
       IN  call' = IF outcome = "ok"
                   THEN [sent EXCEPT !.offset = Min(offset + ChunkBytes, file_size),
                                     !.part_number = @ + 1]
                   ELSE [sent EXCEPT !.pc = "aborting"]

\* f.read gave nothing: complete_multipart_upload, after which
\* upload_to_s3_async returns the s3:// url
CompleteMultipartUpload(outcome) ==
    /\ callpc = "parts"
    /\ offset >= file_size
    /\ LET sent == Sent(Request("complete_multipart_upload", upload_id, 0, 0, outcome))
       IN  call' = IF outcome = "ok"
                   THEN AttemptSucceeded(Left(sent), "s3_url")
                   ELSE [sent EXCEPT !.pc = "aborting"]

\* the handler of _multipart_upload: abort_multipart_upload, whose own
\* failure the bare except passes over (a CancelledError at this await
\* included), then raise e into the retry loop
AbortMultipartUpload(outcome) ==
    /\ callpc = "aborting"
    /\ call' = AttemptFailed(Left(Sent(Request("abort_multipart_upload", upload_id, 0, 0, outcome))))

\* the task is cancelled while upload_to_s3_async waits for the client, a
\* sleep, upload_fileobj, upload_part or complete_multipart_upload:
\* CancelledError is no Exception, so neither handler runs
Cancel ==
    /\ coroutine = "upload_to_s3_async"
    /\ callpc \in {"attempt", "parts"}
    /\ call' = [call EXCEPT !.pc = "cancelled", !.result = "cancelled"]

\* one attempt of get_video_list_from_api: the list, [], None for a status
\* other than "success", or an exception
GetVideoList(outcome) ==
    /\ coroutine = "get_video_list_from_api"
    /\ callpc = "attempt"
    /\ LET sent == Sent(Request("get-video-list", 0, 0, 0, outcome))
       IN  call' = IF outcome = "raises" THEN AttemptFailed(sent)
                   ELSE AttemptSucceeded(sent, IF outcome = "ok" THEN "video_lines" ELSE "failed")

\* check_s3_file_exists: head_object finds the key, or raises for a key
\* that is not there ("not_found") or for any other reason ("raises")
HeadObject(outcome) ==
    /\ coroutine = "check_s3_file_exists"
    /\ callpc = "attempt"
    /\ call' = AttemptSucceeded(Sent(Request("head_object", 0, 0, 0, outcome)),
                                IF outcome = "ok" THEN "True" ELSE "False")

CallNext ==
    \/ ClientRaises /\ UNCHANGED <<vars, extraction>>
    \/ \E outcome \in {"ok", "raises"} : UploadFileobj(outcome) /\ UNCHANGED <<vars, extraction>>
    \/ \E outcome \in {"ok", "raises"} :
          CreateMultipartUpload(outcome) /\ UNCHANGED <<vars, extraction>>
    \/ \E outcome \in {"ok", "raises"} : UploadPart(outcome) /\ UNCHANGED <<vars, extraction>>
    \/ \E outcome \in {"ok", "raises"} :
          CompleteMultipartUpload(outcome) /\ UNCHANGED <<vars, extraction>>
    \/ \E outcome \in {"ok", "raises"} :
          AbortMultipartUpload(outcome) /\ UNCHANGED <<vars, extraction>>
    \/ Cancel /\ UNCHANGED <<vars, extraction>>
    \/ \E outcome \in {"ok", "error_status", "raises"} :
          GetVideoList(outcome) /\ UNCHANGED <<vars, extraction>>
    \/ \E outcome \in {"ok", "not_found", "raises"} :
          HeadObject(outcome) /\ UNCHANGED <<vars, extraction>>

CallSpec == CallInit /\ [][CallNext]_<<vars, auxvars>>

\* the multipart uploads the call created that are neither completed nor
\* aborted
OpenUploads ==
    {requests[k].id : k \in {c \in Made("create_multipart_upload") : requests[c].outcome = "ok"}}
    \ {requests[k].id : k \in {c \in Made("complete_multipart_upload") \cup Made("abort_multipart_upload") :
                                  requests[c].outcome = "ok"}}

CallTypeOK ==
    /\ coroutine \in Coroutines
    /\ callpc \in {"attempt", "parts", "aborting", "returned", "cancelled"}
    /\ call_attempt \in 0..(max_retries - 1)
    /\ call_result \in {"none", "s3_url", "failed", "cancelled", "video_lines", "True", "False"}

\* C13 (as claimed): when the task is cancelled inside upload_to_s3_async,
\* the multipart upload it has open is aborted before it stops
C13_CancelAborts ==
    callpc = "cancelled" => upload_id \notin OpenUploads

\* the requests that start an attempt of the call
Attempts ==
    Made("upload_fileobj") \cup Made("create_multipart_upload") \cup Made("get-video-list")

\* the requests whose success ends the call
Final ==
    Made("upload_fileobj") \cup Made("complete_multipart_upload") \cup Made("get-video-list")

\* the seconds an asyncio.sleep of the retry loop takes are 2 ** attempt
baseDelay == 1

\* C15: upload_to_s3_async and get_video_list_from_api start at most
\* max_retries attempts; after the failed attempt i they have slept
\* baseDelay * 2^i, for i up to max_retries - 2 and not after the last
\* attempt; and a request that succeeded is the last one they make
C15_RetryPolicy ==
    coroutine \in {"upload_to_s3_async", "get_video_list_from_api"} =>
        /\ call_attempt <= max_retries - 1
        /\ Cardinality(Attempts) <= max_retries
        /\ Len(sleeps) = call_attempt
        /\ Len(sleeps) <= max_retries - 1
        /\ \A i \in 0..(Len(sleeps) - 1) : sleeps[i + 1] = baseDelay * 2 ^ i
        /\ \A k \in Final : requests[k].outcome # "raises" => k = Len(requests) /\ callpc = "returned"
        /\ call_result = "failed" /\ requests # <<>> /\ requests[Len(requests)].outcome = "raises"
              => call_attempt = max_retries - 1

\* an upload has failed on all three attempts of upload_fileobj, with the
\* sleeps 1 and 2 between them
C15_Witness ==
    /\ coroutine = "upload_to_s3_async"
    /\ call_result = "failed"
    /\ Cardinality(Made("upload_fileobj")) = max_retries
    /\ sleeps = <<1, 2>>

\* C16 (as claimed): check_s3_file_exists answers False on a failure of
\* head_object other than "not found" only after max_retries requests
C16_ProbeRetried ==
    (/\ coroutine = "check_s3_file_exists"
     /\ callpc = "returned"
     /\ requests[Len(requests)].outcome = "raises")
        => Cardinality(Made("head_object")) = max_retries

\* the requests of a multipart upload that raised
FailedIn ==
    {k \in Made("upload_part") \cup Made("complete_multipart_upload") :
        requests[k].outcome = "raises"}

\* C17 (as claimed): a failure inside a created multipart upload is followed
\* by abort_multipart_upload for its upload id, no complete_multipart_upload
\* for that id comes after it, and when upload_to_s3_async has returned no
\* upload it created is left open
C17_FailedMultipartAborted ==
    /\ callpc # "aborting" =>
          \A k \in FailedIn :
              /\ k < Len(requests)
              /\ requests[k + 1].op = "abort_multipart_upload"
              /\ requests[k + 1].id = requests[k].id
    /\ \A k \in FailedIn : \A j \in Made("complete_multipart_upload") :
          j > k => requests[j].id # requests[k].id
    /\ callpc = "returned" => OpenUploads = {}

\* the upload_part requests made for upload id `id`, and those answered
PartsOf(id) == {k \in Made("upload_part") : requests[k].id = id}
DoneOf(id) == {k \in PartsOf(id) : requests[k].outcome = "ok"}

\* C18: an attempt uses create_multipart_upload exactly when the file is
\* larger than 100 MiB and upload_fileobj otherwise; the parts of one
\* upload are numbered 1, 2, 3, ... chunk after chunk of the file, and one
\* complete_multipart_upload follows the last of them
C18_MultipartAboveThreshold ==
    /\ Made("create_multipart_upload") # {} => file_size > 100 * 1024 * 1024
    /\ Made("upload_fileobj") # {} => file_size <= 100 * 1024 * 1024
    /\ call_result = "s3_url" =>
          requests[Len(requests)].op = IF file_size > 100 * 1024 * 1024
                                       THEN "complete_multipart_upload"
                                       ELSE "upload_fileobj"
    /\ \A k \in Made("upload_part") :
          /\ requests[k].part = Cardinality({j \in DoneOf(requests[k].id) : j < k}) + 1
          /\ requests[k].at = (requests[k].part - 1) * ChunkBytes
          /\ requests[k].at < file_size
    /\ \A k \in Made("complete_multipart_upload") :
          /\ \A j \in Made("complete_multipart_upload") : requests[j].id = requests[k].id => j = k
          /\ \A j \in PartsOf(requests[k].id) : j < k /\ requests[j].outcome = "ok"
          /\ Cardinality(PartsOf(requests[k].id)) * ChunkBytes >= file_size
          /\ (Cardinality(PartsOf(requests[k].id)) - 1) * ChunkBytes < file_size

\* a file of 100 MiB and one byte was stored at the first attempt, in
\* thirteen parts and a complete_multipart_upload
C18_Witness ==
    /\ call_result = "s3_url"
    /\ file_size = Threshold + 1
    /\ Cardinality(Made("upload_part")) = 13
    /\ requests[Len(requests)].op = "complete_multipart_upload"
    /\ call_attempt = 0

\* the first two parts of C17: the abort is requested, and no
\* complete_multipart_upload follows for that upload id
AbortRequested ==
    /\ callpc # "aborting" =>
          \A k \in FailedIn :
              /\ k < Len(requests)
              /\ requests[k + 1].op = "abort_multipart_upload"
              /\ requests[k + 1].id = requests[k].id
    /\ \A k \in FailedIn : \A j \in Made("complete_multipart_upload") :
          j > k => requests[j].id # requests[k].id

(***************************************************************************)
(* SecurityUtils.sanitize_filename on its own: applied to a name, and      *)
(* then to what it returned                                                *)
(***************************************************************************)
\* the characters the names are made of: a letter, the two characters
\* strip('. ') removes, and one that re.sub replaces
NameChars == {"a", " ", ".", "/"}

\* n letters
Pad(n) == [k \in 1..n |-> "a"]

\* how many letters stand in the middle of a name: none, or enough for the
\* name to reach max_length's default with or without what stands around
Pads == {0, DefaultMaxLength - 2, DefaultMaxLength - 1, DefaultMaxLength}

\* the names: up to MaxAffix characters, the letters, up to MaxAffix
\* characters
Names ==
    {pre \o Pad(n) \o post :
        pre \in SeqsUpTo(NameChars, MaxAffix), n \in Pads, post \in SeqsUpTo(NameChars, MaxAffix)}

\* max_length: the default, and one shorter than "unnamed"
MaxLengths == {DefaultMaxLength, Len(unnamed) - 1}

SanitizeInit ==
    /\ Idle
    /\ NoExtract
    /\ call \in {[name |-> "sanitize_filename", filename |-> filename, max_length |-> max_length,
                  applied |-> 0, once |-> <<>>, twice |-> <<>>] :
                    filename \in Names, max_length \in MaxLengths}

\* sanitize_filename(filename, max_length) returns
SanitizeOnce ==
    /\ call.name = "sanitize_filename"
    /\ call.applied = 0
    /\ call' = [call EXCEPT !.applied = 1,
                            !.once = sanitize_filename(call.filename, call.max_length)]
    /\ UNCHANGED <<vars, extraction>>

\* sanitize_filename of what it returned, with the same max_length
SanitizeTwice ==
    /\ call.name = "sanitize_filename"
    /\ call.applied = 1
    /\ call' = [call EXCEPT !.applied = 2,
                            !.twice = sanitize_filename(call.once, call.max_length)]
    /\ UNCHANGED <<vars, extraction>>

SanitizeNext ==
    \/ SanitizeOnce
    \/ SanitizeTwice

SanitizeSpec == SanitizeInit /\ [][SanitizeNext]_<<vars, auxvars>>

\* C21 (as claimed): with the default max_length, sanitize_filename of what
\* sanitize_filename returned is that same name
C21_SanitizeIdempotent ==
    (call.applied = 2 /\ call.max_length = DefaultMaxLength) => call.twice = call.once

\* C22 (as claimed): what sanitize_filename returns is not empty and has at
\* most max_length characters
C22_SanitizeBounded ==
    call.applied >= 1 => (call.once # <<>> /\ Len(call.once) <= call.max_length)

\* what sanitize_filename returns is not empty, has none of the characters
\* re.sub replaces, and neither starts nor ends with a dot or a space when
\* the name was not cut
SanitizedClean ==
    call.applied >= 1 =>
        /\ call.once # <<>>
        /\ \A k \in 1..Len(call.once) : call.once[k] \notin Dangerous
        /\ Len(Strip(SubDangerous(call.filename), {".", " "})) <= call.max_length
              => (call.once[1] \notin {".", " "} /\ call.once[Len(call.once)] \notin {".", " "})

====
